---- MODULE Spec2Model ----
(***************************************************************************)
(* Model of tmp/pdfs/generate_component_summary_pdf.py: a linear layout    *)
(* cursor on one Letter page, its drawing primitives, the fixed document   *)
(* driver and the overflow guard in front of canvas.save().                *)
(*                                                                         *)
(* Lengths are integers in units of 1/10000 pt, so that 11.5 pt line       *)
(* heights, 9.6 pt fonts and AFM glyph widths (1/1000 em) are all exact.   *)
(* Font sizes are carried in tenths of a point.  Arithmetic is exact: the  *)
(* rounding of Python floats is not modelled.                              *)
(* A string is a sequence of one-character strings.                        *)
(***************************************************************************)
EXTENDS Integers, Sequences, FiniteSets, TLC

VARIABLES
  y,        \* the global cursor `y`
  font,     \* the canvas's current font, set by c.setFont
  canvas,   \* the drawString instructions issued on `c`, in order
  calls,    \* names of the primitives called so far, in order
  last,     \* the arguments and the starting point of the most recent call
  pc,       \* position of the module-level script (document driver)
  content,  \* the body texts and list items the driver passes
  compared, \* how many times `y < MARGIN` has been evaluated
  raised,   \* TRUE once RuntimeError has been raised
  file,     \* the pages written to OUTPUT_PATH, one entry per c.save()
  reported, \* how many times the path has been printed
  wtext,    \* wrapper study: the input string
  wsize,    \* wrapper study: the font size (tenths of a point)
  wwidth,   \* wrapper study: the maximum width
  wlines,   \* wrapper study: the returned lines
  wdone     \* wrapper study: TRUE once the wrapper has returned

vars == <<y, font, canvas, calls, last, pc, content, compared, raised, file,
          reported, wtext, wsize, wwidth, wlines, wdone>>

\* ---------------------------------------------------------------- bounds
MaxLen == 5
MaxItems == 3
MaxCalls == 2
LongList == 11
DocItems == 17

\* -------------------------------------------------------------- geometry
UnitsPerPt == 10 * 1000
Pt(n) == n * UnitsPerPt
Tenths(n) == n * (UnitsPerPt \div 10)

PAGE_WIDTH == Pt(612)
PAGE_HEIGHT == Pt(792)
MARGIN == Pt(42)
CONTENT_WIDTH == PAGE_WIDTH - (2 * MARGIN)
bullet_indent == Pt(12)

TitleSize == 180
TitleAdvance == Pt(22)
HeadingSize == 115
HeadingAdvance == Pt(14)
GapAdvance == Pt(6)
ParagraphSize == 98
ParagraphLineHeight == Pt(12)
ListSize == 96
ListLineHeight == Tenths(115)

\* ------------------------------------------------------------------ text
Alphabet == {" ", "a", "W"}

\* Helvetica glyph widths in 1/1000 em.
CharWidth(ch) ==
  CASE ch = " " -> 278
    [] ch = "." -> 278
    [] ch = "-" -> 333
    [] ch = "W" -> 944
    [] OTHER -> 556

RECURSIVE SumWidths(_)
SumWidths(s) == IF s = <<>> THEN 0 ELSE CharWidth(Head(s)) + SumWidths(Tail(s))

\* c.stringWidth(s, "Helvetica", size): width in 1/10000 pt for size in tenths.
stringWidth(s, size) == SumWidths(s) * size

\* str.split(): the maximal runs of non-whitespace characters, in order.
RECURSIVE SplitFrom(_, _)
SplitFrom(s, cur) ==
  IF s = <<>> THEN (IF cur = <<>> THEN <<>> ELSE <<cur>>)
  ELSE IF Head(s) = " "
       THEN (IF cur = <<>> THEN <<>> ELSE <<cur>>) \o SplitFrom(Tail(s), <<>>)
       ELSE SplitFrom(Tail(s), Append(cur, Head(s)))

Split(s) == SplitFrom(s, <<>>)

\* " ".join(tokens)
RECURSIVE Join(_)
Join(toks) ==
  IF toks = <<>> THEN <<>>
  ELSE IF Len(toks) = 1 THEN toks[1]
  ELSE toks[1] \o <<" ">> \o Join(Tail(toks))

\* Variant of Fill that measures only the arriving token, not the line.
RECURSIVE FillMeasuringToken(_, _, _, _)
FillMeasuringToken(toks, open, size, maxWidth) ==
  IF toks = <<>> THEN (IF open = <<>> THEN <<>> ELSE <<Join(open)>>)
  ELSE IF open = <<>> \/ stringWidth(Head(toks), size) <= maxWidth
       THEN FillMeasuringToken(Tail(toks), Append(open, Head(toks)), size, maxWidth)
       ELSE <<Join(open)>> \o FillMeasuringToken(Tail(toks), <<Head(toks)>>, size, maxWidth)

\* Greedy line filling: a token joins the open line while the line still
\* measures <= maxWidth; otherwise the open line is closed and the token
\* opens the next one.  A token opening a line is never split.
RECURSIVE Fill(_, _, _, _)
Fill(toks, open, size, maxWidth) ==
  IF toks = <<>> THEN (IF open = <<>> THEN <<>> ELSE <<Join(open)>>)
  ELSE IF open = <<>> \/ stringWidth(Join(Append(open, Head(toks))), size) <= maxWidth
       THEN Fill(Tail(toks), Append(open, Head(toks)), size, maxWidth)
       ELSE <<Join(open)>> \o Fill(Tail(toks), <<Head(toks)>>, size, maxWidth)

simpleSplit(text, size, maxWidth) == Fill(Split(text), <<>>, size, maxWidth)

\* str(idx) for idx >= 1
RECURSIVE Decimal(_)
Decimal(n) ==
  LET d == <<"0", "1", "2", "3", "4", "5", "6", "7", "8", "9">>[(n % 10) + 1]
  IN IF n < 10 THEN <<d>> ELSE Append(Decimal(n \div 10), d)

\* f"{idx}. "
Prefix(idx) == Decimal(idx) \o <<".", " ">>

\* ---------------------------------------------------------------- canvas
\* The layout cursor and the canvas it draws on, as one value.
Cursor == [y |-> y, font |-> font, canvas |-> canvas]

\* c.setFont(name, size)
setFont(st, name, size) == [st EXCEPT !.font = <<name, size>>]

\* c.drawString(x, y, text) at the cursor's current y, in the current font
drawString(st, x, text) ==
  [st EXCEPT !.canvas = Append(@, [x |-> x, y |-> st.y, text |-> text, font |-> st.font])]

\* Variant of Advance with the sign of the step reversed.
AdvanceUp(st, d) == [st EXCEPT !.y = @ + d]

\* y -= d
Advance(st, d) == [st EXCEPT !.y = @ - d]

\* for line in lines: c.drawString(x, y, line); y -= line_height
RECURSIVE DrawLines(_, _, _, _)
DrawLines(st, x, lines, line_height) ==
  IF lines = <<>> THEN st
  ELSE DrawLines(Advance(drawString(st, x, Head(lines)), line_height),
                 x, Tail(lines), line_height)

\* ------------------------------------------------------------ primitives
draw_title(st, text) ==
  Advance(drawString(setFont(st, "Helvetica-Bold", TitleSize), MARGIN, text), TitleAdvance)

draw_heading(st, text) ==
  Advance(drawString(setFont(st, "Helvetica-Bold", HeadingSize), MARGIN, text), HeadingAdvance)

\* Variant of draw_paragraph that always leaves one line of space behind.
draw_paragraphTrailing(st, text, font_size, line_height) ==
  Advance(DrawLines(setFont(st, "Helvetica", font_size), MARGIN,
                    simpleSplit(text, font_size, CONTENT_WIDTH), line_height),
          line_height)

draw_paragraph(st, text, font_size, line_height) ==
  DrawLines(setFont(st, "Helvetica", font_size), MARGIN,
            simpleSplit(text, font_size, CONTENT_WIDTH), line_height)

\* Variant of BulletItem without the `if not wrapped: continue`.
BulletItemNoSkip(st, item, font_size, line_height) ==
  LET text_width == CONTENT_WIDTH - bullet_indent
      wrapped == simpleSplit(item, font_size, text_width)
      first == IF wrapped = <<>> THEN <<>> ELSE wrapped[1]
      rest == IF wrapped = <<>> THEN <<>> ELSE Tail(wrapped)
  IN DrawLines(Advance(drawString(st, MARGIN, <<"-", " ">> \o first), line_height),
               MARGIN + bullet_indent, rest, line_height)

\* One pass of the loop body of draw_bullets.
BulletItem(st, item, font_size, line_height) ==
  LET text_width == CONTENT_WIDTH - bullet_indent
      wrapped == simpleSplit(item, font_size, text_width)
  IN IF wrapped = <<>> THEN st
     ELSE DrawLines(Advance(drawString(st, MARGIN, <<"-", " ">> \o wrapped[1]), line_height),
                    MARGIN + bullet_indent, Tail(wrapped), line_height)

RECURSIVE BulletLoop(_, _, _, _)
BulletLoop(st, items, font_size, line_height) ==
  IF items = <<>> THEN st
  ELSE BulletLoop(BulletItem(st, Head(items), font_size, line_height),
                  Tail(items), font_size, line_height)

draw_bullets(st, items, font_size, line_height) ==
  BulletLoop(setFont(st, "Helvetica", font_size), items, font_size, line_height)

\* Variant of NumberedItem that indents continuation lines to one fixed
\* column, the prefix width of a one-digit ordinal.
NumberedItemFixedColumn(st, idx, item, font_size, line_height) ==
  LET prefix == Prefix(idx)
      prefix_width == stringWidth(prefix, font_size)
      text_width == CONTENT_WIDTH - prefix_width
      wrapped == simpleSplit(item, font_size, text_width)
  IN IF wrapped = <<>> THEN st
     ELSE DrawLines(Advance(drawString(st, MARGIN, prefix \o wrapped[1]), line_height),
                    MARGIN + stringWidth(Prefix(1), font_size), Tail(wrapped), line_height)

\* One pass of the loop body of draw_numbered, for the item enumerated as idx.
NumberedItem(st, idx, item, font_size, line_height) ==
  LET prefix == Prefix(idx)
      prefix_width == stringWidth(prefix, font_size)
      text_width == CONTENT_WIDTH - prefix_width
      wrapped == simpleSplit(item, font_size, text_width)
  IN IF wrapped = <<>> THEN st
     ELSE DrawLines(Advance(drawString(st, MARGIN, prefix \o wrapped[1]), line_height),
                    MARGIN + prefix_width, Tail(wrapped), line_height)

\* enumerate(items, start=1), from position idx on
RECURSIVE NumberedLoop(_, _, _, _, _)
NumberedLoop(st, idx, items, font_size, line_height) ==
  IF idx > Len(items) THEN st
  ELSE NumberedLoop(NumberedItem(st, idx, items[idx], font_size, line_height),
                    idx + 1, items, font_size, line_height)

\* Variant of draw_numbered that numbers only the items it draws.
HasWord(t) == Split(t) # <<>>
draw_numberedRenumbering(st, items, font_size, line_height) ==
  NumberedLoop(setFont(st, "Helvetica", font_size), 1, SelectSeq(items, HasWord),
               font_size, line_height)

draw_numbered(st, items, font_size, line_height) ==
  NumberedLoop(setFont(st, "Helvetica", font_size), 1, items, font_size, line_height)

section_gap(st) == Advance(st, GapAdvance)

\* ---------------------------------------------------------------- inputs
\* A literal that is drawn whole and never measured or split.
Literal(s) == <<s>>

PosterSize == 300 * 10

\* All strings over Alphabet of at most MaxLen characters.
Texts == UNION {[1..n -> Alphabet] : n \in 0..MaxLen}

\* Strings passed to the primitives: empty, blank, one word, two words
\* that fit one line at the default sizes and wrap at PosterSize.
ItemSeq == << <<>>, <<" ">>, <<"a">>, <<"W", " ", "W">> >>
ItemTexts == {ItemSeq[i] : i \in 1..Len(ItemSeq)}

\* n items, cycling through ItemSeq from position k.
Cycle(n, k) == [i \in 1..n |-> ItemSeq[((i + k - 2) % Len(ItemSeq)) + 1]]
Rep(n, t) == [i \in 1..n |-> t]

ItemLists == {<<>>} \cup {Cycle(n, k) : n \in {MaxItems, LongList}, k \in 1..Len(ItemSeq)}

\* (font_size, line_height) pairs a caller may pass.
Styles(size, height) ==
  {<<size, height>>, <<PosterSize, height>>, <<size, 0>>, <<size, 0 - Pt(5)>>}

\* Body content the document driver may be fed.
DocTexts == {<<>>, <<"a">>, <<"a", " ", "W">>}
DocLists == {<<>>, Rep(DocItems, <<"a">>), Rep(DocItems - 1, <<"a">>), Cycle(DocItems, 1)}

\* ------------------------------------------------------------- the script
\* Variant of Document with a single heading/paragraph/gap section.
DocumentOneParagraph ==
  << [op |-> "title",     arg |-> Literal("Accessible Spreadsheet Component - One Page Summary")],
     [op |-> "heading",   arg |-> Literal("What it is")],
     [op |-> "paragraph", arg |-> "p1"],
     [op |-> "gap",       arg |-> <<>>],
     [op |-> "heading",   arg |-> Literal("What it does")],
     [op |-> "bullets",   arg |-> "b1"],
     [op |-> "gap",       arg |-> <<>>],
     [op |-> "heading",   arg |-> Literal("How it works")],
     [op |-> "bullets",   arg |-> "b2"],
     [op |-> "gap",       arg |-> <<>>],
     [op |-> "heading",   arg |-> Literal("How to run/use (minimal)")],
     [op |-> "numbered",  arg |-> "n1"] >>

\* The module-level statements after the definitions, in source order.
Document ==
  << [op |-> "title",     arg |-> Literal("Accessible Spreadsheet Component - One Page Summary")],
     [op |-> "heading",   arg |-> Literal("What it is")],
     [op |-> "paragraph", arg |-> "p1"],
     [op |-> "gap",       arg |-> <<>>],
     [op |-> "heading",   arg |-> Literal("What use cases it covers")],
     [op |-> "paragraph", arg |-> "p2"],
     [op |-> "gap",       arg |-> <<>>],
     [op |-> "heading",   arg |-> Literal("What it does")],
     [op |-> "bullets",   arg |-> "b1"],
     [op |-> "gap",       arg |-> <<>>],
     [op |-> "heading",   arg |-> Literal("How it works")],
     [op |-> "bullets",   arg |-> "b2"],
     [op |-> "gap",       arg |-> <<>>],
     [op |-> "heading",   arg |-> Literal("How to run/use (minimal)")],
     [op |-> "numbered",  arg |-> "n1"] >>

AtGuard == Len(Document) + 1
AtSave == Len(Document) + 2
AtPrint == Len(Document) + 3
Exited == Len(Document) + 4

NoCall == [op |-> "none", arg |-> <<>>, font_size |-> 0, line_height |-> 0,
           y0 |-> PAGE_HEIGHT - MARGIN, n0 |-> 0]

\* Variant of Overflowed that compares against the page edge.
OverflowedBelowPage(yv) == yv < 0

\* `if y < MARGIN`
Overflowed(yv) == yv < MARGIN

\* Variant of CursorInit with the cursor at the page's top edge.
CursorInitPageTop ==
  /\ y = PAGE_HEIGHT
  /\ font = <<"Helvetica", 120>>
  /\ canvas = <<>>
  /\ calls = <<>>
  /\ last = [op |-> "none", arg |-> <<>>, font_size |-> 0, line_height |-> 0,
             y0 |-> PAGE_HEIGHT, n0 |-> 0]
  /\ compared = 0
  /\ raised = FALSE
  /\ file = <<>>
  /\ reported = 0

\* State after lines 1-15: directory made, canvas created, cursor at the top.
CursorInit ==
  /\ y = PAGE_HEIGHT - MARGIN
  /\ font = <<"Helvetica", 120>>
  /\ canvas = <<>>
  /\ calls = <<>>
  /\ last = NoCall
  /\ compared = 0
  /\ raised = FALSE
  /\ file = <<>>
  /\ reported = 0

NoWrapStudy ==
  /\ wtext = <<>>
  /\ wsize = 0
  /\ wwidth = 0
  /\ wlines = <<>>
  /\ wdone = FALSE

NoContent == [p1 |-> <<>>, p2 |-> <<>>, b1 |-> <<>>, b2 |-> <<>>, n1 |-> <<>>]

\* The cursor, canvas and call record after a primitive returned st.
Return(st, op, arg, font_size, line_height) ==
  /\ y' = st.y
  /\ font' = st.font
  /\ canvas' = st.canvas
  /\ calls' = Append(calls, op)
  /\ last' = [op |-> op, arg |-> arg, font_size |-> font_size,
              line_height |-> line_height, y0 |-> y, n0 |-> Len(canvas)]

scriptVars == <<pc, content, compared, raised, file, reported>>
wrapVars == <<wtext, wsize, wwidth, wlines, wdone>>
cursorVars == <<y, font, canvas, calls, last>>

\* ------------------------------------------------- the script's statements
AtCall(op) == pc \in 1..Len(Document) /\ Document[pc].op = op

RunTitle ==
  /\ AtCall("title")
  /\ Return(draw_title(Cursor, Document[pc].arg), "title", Document[pc].arg,
            TitleSize, TitleAdvance)
  /\ pc' = pc + 1
  /\ UNCHANGED <<content, compared, raised, file, reported, wrapVars>>

RunHeading ==
  /\ AtCall("heading")
  /\ Return(draw_heading(Cursor, Document[pc].arg), "heading", Document[pc].arg,
            HeadingSize, HeadingAdvance)
  /\ pc' = pc + 1
  /\ UNCHANGED <<content, compared, raised, file, reported, wrapVars>>

RunParagraph ==
  /\ AtCall("paragraph")
  /\ LET text == content[Document[pc].arg]
     IN Return(draw_paragraph(Cursor, text, ParagraphSize, ParagraphLineHeight),
               "paragraph", text, ParagraphSize, ParagraphLineHeight)
  /\ pc' = pc + 1
  /\ UNCHANGED <<content, compared, raised, file, reported, wrapVars>>

RunBullets ==
  /\ AtCall("bullets")
  /\ LET items == content[Document[pc].arg]
     IN Return(draw_bullets(Cursor, items, ListSize, ListLineHeight),
               "bullets", items, ListSize, ListLineHeight)
  /\ pc' = pc + 1
  /\ UNCHANGED <<content, compared, raised, file, reported, wrapVars>>

RunNumbered ==
  /\ AtCall("numbered")
  /\ LET items == content[Document[pc].arg]
     IN Return(draw_numbered(Cursor, items, ListSize, ListLineHeight),
               "numbered", items, ListSize, ListLineHeight)
  /\ pc' = pc + 1
  /\ UNCHANGED <<content, compared, raised, file, reported, wrapVars>>

RunGap ==
  /\ AtCall("gap")
  /\ Return(section_gap(Cursor), "gap", <<>>, 0, GapAdvance)
  /\ pc' = pc + 1
  /\ UNCHANGED <<content, compared, raised, file, reported, wrapVars>>

\* if y < MARGIN: raise RuntimeError(...)
OverflowGuard ==
  /\ pc = AtGuard
  /\ compared' = compared + 1
  /\ raised' = Overflowed(y)
  /\ pc' = IF Overflowed(y) THEN Exited ELSE AtSave
  /\ UNCHANGED <<cursorVars, content, file, reported, wrapVars>>

\* c.save()
Save ==
  /\ pc = AtSave
  /\ file' = Append(file, canvas)
  /\ pc' = AtPrint
  /\ UNCHANGED <<cursorVars, content, compared, raised, reported, wrapVars>>

\* Variant of Report placed before c.save().
ReportBeforeSave ==
  /\ pc = AtSave
  /\ reported = 0
  /\ reported' = reported + 1
  /\ UNCHANGED <<cursorVars, pc, content, compared, raised, file, wrapVars>>

\* print(str(OUTPUT_PATH))
Report ==
  /\ pc = AtPrint
  /\ reported' = reported + 1
  /\ pc' = Exited
  /\ UNCHANGED <<cursorVars, content, compared, raised, file, wrapVars>>

Init ==
  /\ CursorInit
  /\ NoWrapStudy
  /\ pc = 1
  /\ content \in [p1 : DocTexts, p2 : DocTexts, b1 : DocLists, b2 : DocLists, n1 : DocLists]

Next ==
  \/ RunTitle
  \/ RunHeading
  \/ RunParagraph
  \/ RunBullets
  \/ RunNumbered
  \/ RunGap
  \/ OverflowGuard
  \/ Save
  \/ Report

Spec == Init /\ [][Next]_vars

\* ---------------------------------------- the primitives, called at will
MayCall == Len(calls) < MaxCalls

CallTitle ==
  /\ MayCall
  /\ \E text \in {<<>>, <<"a">>} :
       Return(draw_title(Cursor, text), "title", text, TitleSize, TitleAdvance)
  /\ UNCHANGED <<scriptVars, wrapVars>>

CallHeading ==
  /\ MayCall
  /\ \E text \in {<<>>, <<"a">>} :
       Return(draw_heading(Cursor, text), "heading", text, HeadingSize, HeadingAdvance)
  /\ UNCHANGED <<scriptVars, wrapVars>>

CallParagraph ==
  /\ MayCall
  /\ \E text \in ItemTexts, s \in Styles(ParagraphSize, ParagraphLineHeight) :
       Return(draw_paragraph(Cursor, text, s[1], s[2]), "paragraph", text, s[1], s[2])
  /\ UNCHANGED <<scriptVars, wrapVars>>

CallBullets ==
  /\ MayCall
  /\ \E items \in ItemLists, s \in Styles(ListSize, ListLineHeight) :
       Return(draw_bullets(Cursor, items, s[1], s[2]), "bullets", items, s[1], s[2])
  /\ UNCHANGED <<scriptVars, wrapVars>>

CallNumbered ==
  /\ MayCall
  /\ \E items \in ItemLists, s \in Styles(ListSize, ListLineHeight) :
       Return(draw_numbered(Cursor, items, s[1], s[2]), "numbered", items, s[1], s[2])
  /\ UNCHANGED <<scriptVars, wrapVars>>

CallGap ==
  /\ MayCall
  /\ Return(section_gap(Cursor), "gap", <<>>, 0, GapAdvance)
  /\ UNCHANGED <<scriptVars, wrapVars>>

InitPrimitives ==
  /\ CursorInit
  /\ NoWrapStudy
  /\ pc = 0
  /\ content = NoContent

NextPrimitives ==
  \/ CallTitle
  \/ CallHeading
  \/ CallParagraph
  \/ CallBullets
  \/ CallNumbered
  \/ CallGap

SpecPrimitives == InitPrimitives /\ [][NextPrimitives]_vars

\* ------------------------------------------------- the wrapper on its own
\* The widths the three wrapping primitives pass at a given font size.
WrapWidths(size) ==
  {CONTENT_WIDTH, CONTENT_WIDTH - bullet_indent}
    \cup {CONTENT_WIDTH - stringWidth(Prefix(idx), size) : idx \in {1, LongList}}

Wrap ==
  /\ ~wdone
  /\ wlines' = simpleSplit(wtext, wsize, wwidth)
  /\ wdone' = TRUE
  /\ UNCHANGED <<cursorVars, scriptVars, wtext, wsize, wwidth>>

InitWrap ==
  /\ CursorInit
  /\ pc = 0
  /\ content = NoContent
  /\ wtext \in Texts
  /\ wsize \in {ListSize, ParagraphSize, PosterSize}
  /\ wwidth \in WrapWidths(wsize)
  /\ wlines = <<>>
  /\ wdone = FALSE

NextWrap == Wrap

SpecWrap == InitWrap /\ [][NextWrap]_vars

\* ======================================================================
\* Properties
\* ======================================================================

\* The instructions the most recent call added to the canvas.
New == SubSeq(canvas, last.n0 + 1, Len(canvas))

\* Number of lines in W[1..i-1], for a sequence W of wrap results.
RECURSIVE LinesBefore(_, _)
LinesBefore(W, i) == IF i <= 1 THEN 0 ELSE LinesBefore(W, i - 1) + Len(W[i - 1])

TotalLines(W) == LinesBefore(W, Len(W) + 1)

IsBlank(text) == \A i \in 1..Len(text) : text[i] = " "

Passed == pc \in {AtSave, AtPrint} \/ (pc = Exited /\ ~raised)

\* ---------------------------------------------------------------- C1
\* C1: overflow rejection is all-or-nothing.  When the script has ended, the
\* output file has been written if and only if the final cursor is at or
\* above MARGIN; a run ending below MARGIN has raised the error, and a run
\* that raised has neither saved nor reported the path.
C1_AllOrNothing ==
  /\ pc = Exited => ((file # <<>>) <=> (y >= MARGIN))
  /\ pc = Exited /\ y < MARGIN => raised
  /\ raised => file = <<>> /\ reported = 0 /\ pc = Exited

C1_Witness == pc = Exited /\ raised /\ y < MARGIN /\ y > 0 /\ canvas # <<>>

\* ---------------------------------------------------------------- C2
\* C2 as stated: after every primitive call, whatever font_size and
\* line_height the caller passed, the cursor is <= its value before the call.
C2_Original == y <= last.y0

\* C2 amended: after every primitive call whose line_height is not negative
\* (title, heading and gap always advance by positive constants), the cursor
\* is <= its value before the call.
C2_Monotonic == last.line_height >= 0 => y <= last.y0

C2_Witness ==
  /\ Len(calls) = MaxCalls
  /\ last.op = "numbered"
  /\ last.line_height > 0
  /\ y < last.y0
  /\ last.y0 < PAGE_HEIGHT - MARGIN

\* ---------------------------------------------------------------- C3
SpecOrder ==
  <<"title", "heading", "paragraph", "gap", "heading", "bullets", "gap",
    "heading", "bullets", "gap", "heading", "numbered">>

SourceOrder ==
  <<"title", "heading", "paragraph", "gap", "heading", "paragraph", "gap",
    "heading", "bullets", "gap", "heading", "bullets", "gap",
    "heading", "numbered">>

\* C3 as stated: when the overflow check is reached, the primitives called
\* were title, (heading, paragraph, gap), (heading, bullets, gap),
\* (heading, bullets, gap), (heading, numbered), in this order.
C3_Original == pc >= AtGuard => calls = SpecOrder

\* C3 amended: the driver calls title, (heading, paragraph, gap),
\* (heading, paragraph, gap), (heading, bullets, gap), (heading, bullets,
\* gap), (heading, numbered) in this order and nothing else, and the
\* overflow check is made only after the final numbered call.
C3_SourceOrder ==
  /\ Len(calls) <= Len(SourceOrder)
  /\ calls = SubSeq(SourceOrder, 1, Len(calls))
  /\ pc >= AtGuard => calls = SourceOrder
  /\ compared > 0 => calls = SourceOrder /\ last.op = "numbered"

C3_Witness == pc = AtSave /\ compared = 1 /\ calls = SourceOrder

\* ---------------------------------------------------------------- C4
\* The wrap result of every item of the most recent draw_bullets call.
BulletWraps ==
  [i \in 1..Len(last.arg) |->
     simpleSplit(last.arg[i], last.font_size, CONTENT_WIDTH - bullet_indent)]

\* C4: bullet skip policy.  After draw_bullets, the call has added, item by
\* item in order, one line "- " + first wrapped line at x = MARGIN for every
\* item whose wrap result is non-empty, followed by that item's continuation
\* lines, unmarked, at x = MARGIN + bullet_indent; items whose wrap result is
\* empty add nothing; and the cursor has moved by line_height times the total
\* number of wrapped lines.
C4_BulletSkip ==
  last.op = "bullets" =>
    LET W == BulletWraps
        lh == last.line_height
    IN /\ Len(New) = TotalLines(W)
       /\ last.y0 - y = lh * TotalLines(W)
       /\ Cardinality({k \in 1..Len(New) : New[k].x = MARGIN})
            = Cardinality({i \in 1..Len(W) : W[i] # <<>>})
       /\ \A i \in 1..Len(W) : \A j \in 1..Len(W[i]) :
            LET k == LinesBefore(W, i) + j
            IN /\ New[k].y = last.y0 - lh * (k - 1)
               /\ New[k].font = <<"Helvetica", last.font_size>>
               /\ j = 1 => New[k].x = MARGIN /\ New[k].text = <<"-", " ">> \o W[i][1]
               /\ j > 1 => New[k].x = MARGIN + bullet_indent /\ New[k].text = W[i][j]

\* A blank item is skipped, a later item wraps onto a continuation line.
C4_Witness ==
  /\ last.op = "bullets"
  /\ last.line_height > 0
  /\ Len(last.arg) = MaxItems
  /\ IsBlank(last.arg[1])
  /\ \E i \in 2..Len(last.arg) : Len(BulletWraps[i]) >= 2
  /\ Len(New) < 2 * Len(last.arg)

\* ---------------------------------------------------------------- C5
\* The wrap result of every item of the most recent draw_numbered call, each
\* against CONTENT_WIDTH less the width of the item's own prefix.
NumberedWraps ==
  [i \in 1..Len(last.arg) |->
     simpleSplit(last.arg[i], last.font_size,
                 CONTENT_WIDTH - stringWidth(Prefix(i), last.font_size))]

\* C5: numbered ordinals are positional.  After draw_numbered, the item at
\* 0-based index i-1 whose wrap result is non-empty was drawn with the prefix
\* "i. ", however many earlier items were skipped; skipped items added no
\* line and no advance.
C5_PositionalOrdinals ==
  last.op = "numbered" =>
    LET W == NumberedWraps
    IN /\ Len(New) = TotalLines(W)
       /\ last.y0 - y = last.line_height * TotalLines(W)
       /\ \A i \in 1..Len(W) :
            W[i] # <<>> =>
              New[LinesBefore(W, i) + 1].text = Decimal(i) \o <<".", " ">> \o W[i][1]

\* items ["", " ", "a"]: the only line drawn is "3. a".
C5_Witness ==
  /\ last.op = "numbered"
  /\ last.arg = << <<>>, <<" ">>, <<"a">> >>
  /\ Len(New) = 1
  /\ New[1].text = <<"3", ".", " ", "a">>
  /\ last.line_height > 0
  /\ last.y0 - y = last.line_height

\* ---------------------------------------------------------------- C6
PrefixWidth(i) == stringWidth(Prefix(i), last.font_size)

\* C6: numbered alignment.  After draw_numbered with a positive font size,
\* every item is wrapped against CONTENT_WIDTH minus the width of its own
\* prefix, its first line is at x = MARGIN and its continuation lines are at
\* x = MARGIN + that item's prefix width; ordinals of two digits have a
\* strictly wider prefix and a strictly smaller budget than ordinals 1-9.
C6_NumberedAlignment ==
  last.op = "numbered" /\ last.font_size > 0 =>
    LET W == NumberedWraps
    IN /\ Len(New) = TotalLines(W)
       /\ \A i \in 1..Len(W) : \A j \in 1..Len(W[i]) :
            LET k == LinesBefore(W, i) + j
            IN /\ j = 1 => New[k].x = MARGIN
               /\ j > 1 => New[k].x = MARGIN + PrefixWidth(i) /\ New[k].text = W[i][j]
               /\ \/ PrefixWidth(i) + stringWidth(W[i][j], last.font_size) <= CONTENT_WIDTH
                  \/ \A c \in 1..Len(W[i][j]) : W[i][j][c] # " "
       /\ \A i \in 1..Len(W) : \A j \in 1..Len(W) :
            i <= 9 /\ j >= 10 =>
              /\ PrefixWidth(i) < PrefixWidth(j)
              /\ CONTENT_WIDTH - PrefixWidth(j) < CONTENT_WIDTH - PrefixWidth(i)

\* An item with a two-digit ordinal wraps, and its continuation line starts
\* to the right of where a one-digit item's continuation would.
C6_Witness ==
  /\ last.op = "numbered"
  /\ last.font_size > 0
  /\ Len(last.arg) >= 10
  /\ \E i \in 10..Len(last.arg) :
       /\ Len(NumberedWraps[i]) >= 2
       /\ New[LinesBefore(NumberedWraps, i) + 2].x = MARGIN + PrefixWidth(i)
       /\ PrefixWidth(i) > PrefixWidth(1)

\* ---------------------------------------------------------------- C7
\* C7: paragraph advance and empty-input policy.  After draw_paragraph, the
\* call has added exactly the lines of the text wrapped against
\* CONTENT_WIDTH, each at x = MARGIN and at the y left by the line before,
\* and the cursor has moved by line_height times their number; for an empty
\* or all-blank text nothing was added and the cursor has not moved.
C7_Paragraph ==
  last.op = "paragraph" =>
    LET W == simpleSplit(last.arg, last.font_size, CONTENT_WIDTH)
    IN /\ Len(New) = Len(W)
       /\ last.y0 - y = last.line_height * Len(W)
       /\ \A j \in 1..Len(W) :
            New[j] = [x |-> MARGIN, y |-> last.y0 - last.line_height * (j - 1),
                      text |-> W[j], font |-> <<"Helvetica", last.font_size>>]
       /\ IsBlank(last.arg) => New = <<>> /\ y = last.y0

C7_Witness ==
  /\ last.op = "paragraph"
  /\ last.line_height > 0
  /\ Len(New) = 2
  /\ New[2].y = last.y0 - last.line_height
  /\ y = last.y0 - 2 * last.line_height

\* ---------------------------------------------------------------- C8
\* The whitespace-separated tokens of s, defined by position: the maximal
\* runs of non-blank characters, ordered by where they start.
TokenSpans(s) ==
  {sp \in (1..Len(s)) \X (1..Len(s)) :
     /\ sp[1] <= sp[2]
     /\ \A i \in sp[1]..sp[2] : s[i] # " "
     /\ sp[1] = 1 \/ s[sp[1] - 1] = " "
     /\ sp[2] = Len(s) \/ s[sp[2] + 1] = " "}

TokensOf(s) ==
  LET S == TokenSpans(s)
  IN [k \in 1..Cardinality(S) |->
        LET sp == CHOOSE t \in S : Cardinality({u \in S : u[1] < t[1]}) = k - 1
        IN SubSeq(s, sp[1], sp[2])]

RECURSIVE Flatten(_)
Flatten(ss) == IF ss = <<>> THEN <<>> ELSE Head(ss) \o Flatten(Tail(ss))

\* C8: wrap correctness.  The lines returned for (text, size, max_width) are
\* non-empty, carry no leading, trailing or doubled blank, hold between them
\* exactly the tokens of the text in their order, and each measures
\* <= max_width unless it is a single token.
C8_WrapCorrect ==
  wdone =>
    /\ \A k \in 1..Len(wlines) :
         LET line == wlines[k]
         IN /\ line # <<>>
            /\ line[1] # " " /\ line[Len(line)] # " "
            /\ \A i \in 1..(Len(line) - 1) : ~(line[i] = " " /\ line[i + 1] = " ")
            /\ \/ stringWidth(line, wsize) <= wwidth
               \/ Len(TokensOf(line)) = 1 /\ stringWidth(line, wsize) > wwidth
    /\ Flatten([k \in 1..Len(wlines) |-> TokensOf(wlines[k])]) = TokensOf(wtext)

\* "a a W" at the poster size against the full content width: "a a" / "W".
C8_Witness ==
  /\ wdone
  /\ Len(wlines) = 2
  /\ Len(TokensOf(wlines[1])) = 2
  /\ stringWidth(wtext, wsize) > wwidth

\* ---------------------------------------------------------------- C9
\* C9: single late bounds check and commit ordering.  While primitives are
\* still to be called no comparison has been made; the comparison is made at
\* most once, with every primitive call already made, and the canvas never
\* changes after it; the canvas is saved at most once, only after a
\* comparison that did not raise, and the file holds the canvas as it still
\* is; the path is reported only after the save; a run that passes the guard
\* ends with one comparison, one save and one report.
C9_StateOrder ==
  /\ compared <= 1 /\ Len(file) <= 1 /\ reported <= 1
  /\ pc <= Len(Document) => compared = 0
  /\ compared = 1 => Len(calls) = Len(Document)
  /\ file # <<>> => compared = 1 /\ ~raised /\ file[1] = canvas
  /\ reported > 0 => file # <<>>
  /\ pc = Exited /\ ~raised => compared = 1 /\ Len(file) = 1 /\ reported = 1

C9_SingleLateCheck ==
  /\ []C9_StateOrder
  /\ [][compared >= 1 => canvas' = canvas /\ y' = y]_vars

C9_Witness ==
  /\ pc = Exited
  /\ compared = 1
  /\ Len(file) = 1
  /\ file[1] = canvas
  /\ reported = 1
  /\ Len(canvas) > Len(Document)

\* --------------------------------------------------------------- C10
\* C10: in a run that passed the overflow guard, every instruction on the
\* canvas has MARGIN < y <= PAGE_HEIGHT - MARGIN and x >= MARGIN.
C10_DrawnInsidePage ==
  Passed =>
    \A i \in 1..Len(canvas) :
      /\ canvas[i].y > MARGIN
      /\ canvas[i].y <= PAGE_HEIGHT - MARGIN
      /\ canvas[i].x >= MARGIN

\* An accepted page whose last line sits within two line heights of MARGIN.
C10_Witness ==
  /\ pc = Exited
  /\ ~raised
  /\ file # <<>>
  /\ Len(canvas) > 2 * DocItems
  /\ canvas[Len(canvas)].y < MARGIN + 2 * ListLineHeight

====
